---- MODULE Spec2Model ----
(***************************************************************************)
(* A model of the banking domain of python-testing-showcase:               *)
(* banking/domain/bank_account.py (the canonical BankAccount).             *)
(*                                                                         *)
(* The heap of BankAccount objects is the sequence `accounts`; an object   *)
(* reference is a record naming the object's type and, for a BankAccount,  *)
(* its index in `accounts`.  Every public call is one action; `last` holds *)
(* what the caller of the call that has just ended observed: the call, its *)
(* arguments, the value datetime.now() returned if the call read the       *)
(* clock, the nested public calls it made and the exception it raised.     *)
(* The program is single-threaded: the caller takes the result of a call   *)
(* (Observe) before it makes the next one.                                 *)
(* `user` is the User object the caller holds (banking/domain/user.py);    *)
(* `prev` remembers the deposit made just before the last call, for the    *)
(* properties that speak of two calls in a row.                            *)
(* `simple` is the heap of the objects of the simpler BankAccount class of  *)
(* src/bank_account.py; `threads` holds the callers that run withdraw and  *)
(* transfer step by step, for the properties about interleaved calls.      *)
(* Amounts are integers (the abstract magnitudes of the design).           *)
(***************************************************************************)
EXTENDS Integers, Sequences, FiniteSets, TLC

VARIABLES accounts, last, user, prev, simple, threads

vars == <<accounts, last, user, prev, simple, threads>>

(* ------------------------------ bounds --------------------------------- *)

\* The number of BankAccount objects constructed in one run.
MaxAccounts == 2

\* The largest balance an account holds and the largest amount passed.
MaxBalance == 3

(* ------------------------- program constants --------------------------- *)

\* BankAccount.__init__(self, balance=0)
DefaultBalance == 0

\* now.weekday() > 4: 0 is Monday, 6 is Sunday
LastBusinessDay == 4

\* now.hour < 9
OpeningHour == 9

\* now.hour > 17
ClosingHour == 17

(* ------------------------------ inputs --------------------------------- *)

\* The amounts a caller passes: one negative value and every balance.
Amounts == (0 - 1)..MaxBalance

\* Every value of datetime.now().weekday() and of datetime.now().hour.
Weekdays == 0..6

Hours == 0..23

Clocks == [weekday : Weekdays, hour : Hours]

\* A clock value inside and one outside the business window, for the calls
\* whose clock is not what a property is about.
SampleClocks == {[weekday |-> 0, hour |-> 12], [weekday |-> 6, hour |-> 12]}

\* The value of last.now for a call that never called datetime.now().
NotRead == [weekday |-> 0 - 1, hour |-> 0 - 1]

(* --------------------------- object references ------------------------- *)

Ref(i) == [type |-> "BankAccount", id |-> i]

NoneObj == [type |-> "NoneType", id |-> 0]

DictObj == [type |-> "dict", id |-> 0]

\* isinstance(obj, BankAccount)
IsBankAccount(obj) == obj.type = "BankAccount"

(* ------------------------------ outcomes ------------------------------- *)

Returned == [raised |-> "None", msg |-> ""]

ValidationError(msg) == [raised |-> "ValidationError", msg |-> msg]

(* ----------------------- BankAccount: validators ----------------------- *)

\* Variant: a deactivated account passes the check.
validate_active_missing(acct) == Returned

validate_active(acct) ==
    IF ~acct.active THEN ValidationError("Account is deactivated") ELSE Returned

\* Variant: a negative amount passes the check.
validate_amount_missing(amount) == Returned

validate_amount(amount) ==
    IF amount < 0 THEN ValidationError("Amount must be positive") ELSE Returned

\* Variant: an amount above the balance passes the check.
validate_sufficient_balance_missing(acct, amount) == Returned

\* Variant: the whole balance cannot be taken (amount >= balance).
validate_sufficient_balance_strict(acct, amount) ==
    IF amount >= acct.balance THEN ValidationError("Insufficient balance") ELSE Returned

validate_sufficient_balance(acct, amount) ==
    IF amount > acct.balance THEN ValidationError("Insufficient balance") ELSE Returned

\* Variant: the closing hour itself is outside the window (now.hour >= 17).
validate_within_withdrawal_time_exclusive(now) ==
    IF now.weekday > LastBusinessDay
    THEN ValidationError("Cannot perform operations outside business days")
    ELSE IF now.hour < OpeningHour \/ now.hour >= ClosingHour
    THEN ValidationError("Cannot perform operations outside business hours")
    ELSE Returned

\* Variant: Saturday counts as a business day (now.weekday() > 5).
validate_within_withdrawal_time_saturday(now) ==
    IF now.weekday > LastBusinessDay + 1
    THEN ValidationError("Cannot perform operations outside business days")
    ELSE IF now.hour < OpeningHour \/ now.hour > ClosingHour
    THEN ValidationError("Cannot perform operations outside business hours")
    ELSE Returned

validate_within_withdrawal_time(now) ==
    IF now.weekday > LastBusinessDay
    THEN ValidationError("Cannot perform operations outside business days")
    ELSE IF now.hour < OpeningHour \/ now.hour > ClosingHour
    THEN ValidationError("Cannot perform operations outside business hours")
    ELSE Returned

(* ----------------------- BankAccount: operations ----------------------- *)
\* Each operation is a function of the heap, the receiver's index, the
\* arguments and the value datetime.now() returns if the operation calls it.
\* It yields the heap it leaves, the exception it raises (or Returned), the
\* clock value it read (or NotRead) and the public methods it called.

Result(accts, outcome, now, calls) ==
    [accounts |-> accts, outcome |-> outcome, now |-> now, calls |-> calls]

\* Variant: the initial balance is not checked.
BankAccount_init_unchecked(accts, balance) ==
    Result(Append(accts, [balance |-> balance, active |-> TRUE]), Returned, NotRead, <<>>)

\* BankAccount(balance): the new object is appended to the heap.
BankAccount_init(accts, balance) ==
    IF balance < 0
    THEN Result(accts, ValidationError("Initial balance cannot be negative"), NotRead, <<>>)
    ELSE Result(Append(accts, [balance |-> balance, active |-> TRUE]), Returned, NotRead, <<>>)

\* Variant: the balance is assigned, not increased (balance = amount).
deposit_assigns(accts, self, amount) ==
    LET active == validate_active(accts[self])
        positive == validate_amount(amount)
    IN  IF active # Returned THEN Result(accts, active, NotRead, <<>>)
        ELSE IF positive # Returned THEN Result(accts, positive, NotRead, <<>>)
        ELSE Result([accts EXCEPT ![self].balance = amount], Returned, NotRead, <<>>)

\* Variant: a deposit of zero is rejected (amount <= 0).
deposit_rejects_zero(accts, self, amount) ==
    LET active == validate_active(accts[self])
    IN  IF active # Returned THEN Result(accts, active, NotRead, <<>>)
        ELSE IF amount <= 0
        THEN Result(accts, ValidationError("Amount must be positive"), NotRead, <<>>)
        ELSE Result([accts EXCEPT ![self].balance = @ + amount], Returned, NotRead, <<>>)

\* Variant: the amount is checked before the account (the two calls swapped).
deposit_amount_first(accts, self, amount) ==
    LET active == validate_active(accts[self])
        positive == validate_amount(amount)
    IN  IF positive # Returned THEN Result(accts, positive, NotRead, <<>>)
        ELSE IF active # Returned THEN Result(accts, active, NotRead, <<>>)
        ELSE Result([accts EXCEPT ![self].balance = @ + amount], Returned, NotRead, <<>>)

\* Variant: deposits above a ceiling are refused.
deposit_limited(accts, self, amount) ==
    LET active == validate_active(accts[self])
        positive == validate_amount(amount)
    IN  IF active # Returned THEN Result(accts, active, NotRead, <<>>)
        ELSE IF positive # Returned THEN Result(accts, positive, NotRead, <<>>)
        ELSE IF amount > 10 * MaxBalance
        THEN Result(accts, ValidationError("Amount exceeds the deposit limit"), NotRead, <<>>)
        ELSE Result([accts EXCEPT ![self].balance = @ + amount], Returned, NotRead, <<>>)

deposit(accts, self, amount) ==
    LET active == validate_active(accts[self])
        positive == validate_amount(amount)
    IN  IF active # Returned THEN Result(accts, active, NotRead, <<>>)
        ELSE IF positive # Returned THEN Result(accts, positive, NotRead, <<>>)
        ELSE Result([accts EXCEPT ![self].balance = @ + amount], Returned, NotRead, <<>>)

\* Variant: the balance is written as "=- amount" instead of "-= amount".
withdraw_assigns(accts, self, amount, clock) ==
    LET active == validate_active(accts[self])
        positive == validate_amount(amount)
        sufficient == validate_sufficient_balance(accts[self], amount)
        in_time == validate_within_withdrawal_time(clock)
    IN  IF active # Returned THEN Result(accts, active, NotRead, <<>>)
        ELSE IF positive # Returned THEN Result(accts, positive, NotRead, <<>>)
        ELSE IF sufficient # Returned THEN Result(accts, sufficient, NotRead, <<>>)
        ELSE IF in_time # Returned THEN Result(accts, in_time, clock, <<>>)
        ELSE Result([accts EXCEPT ![self].balance = 0 - amount], Returned, clock, <<>>)

\* Variant: the balance is written before the business window is checked.
withdraw_writes_first(accts, self, amount, clock) ==
    LET active == validate_active(accts[self])
        positive == validate_amount(amount)
        sufficient == validate_sufficient_balance(accts[self], amount)
        in_time == validate_within_withdrawal_time(clock)
        debited == [accts EXCEPT ![self].balance = @ - amount]
    IN  IF active # Returned THEN Result(accts, active, NotRead, <<>>)
        ELSE IF positive # Returned THEN Result(accts, positive, NotRead, <<>>)
        ELSE IF sufficient # Returned THEN Result(accts, sufficient, NotRead, <<>>)
        ELSE IF in_time # Returned THEN Result(debited, in_time, clock, <<>>)
        ELSE Result(debited, Returned, clock, <<>>)

\* Variant: the business window is checked first, the balance last.
withdraw_time_first(accts, self, amount, clock) ==
    LET active == validate_active(accts[self])
        positive == validate_amount(amount)
        sufficient == validate_sufficient_balance(accts[self], amount)
        in_time == validate_within_withdrawal_time(clock)
    IN  IF active # Returned THEN Result(accts, active, NotRead, <<>>)
        ELSE IF positive # Returned THEN Result(accts, positive, NotRead, <<>>)
        ELSE IF in_time # Returned THEN Result(accts, in_time, clock, <<>>)
        ELSE IF sufficient # Returned THEN Result(accts, sufficient, clock, <<>>)
        ELSE Result([accts EXCEPT ![self].balance = @ - amount], Returned, clock, <<>>)

withdraw(accts, self, amount, clock) ==
    LET active == validate_active(accts[self])
        positive == validate_amount(amount)
        sufficient == validate_sufficient_balance(accts[self], amount)
        in_time == validate_within_withdrawal_time(clock)
    IN  IF active # Returned THEN Result(accts, active, NotRead, <<>>)
        ELSE IF positive # Returned THEN Result(accts, positive, NotRead, <<>>)
        ELSE IF sufficient # Returned THEN Result(accts, sufficient, NotRead, <<>>)
        ELSE IF in_time # Returned THEN Result(accts, in_time, clock, <<>>)
        ELSE Result([accts EXCEPT ![self].balance = @ - amount], Returned, clock, <<>>)

\* Variant: the amount is checked before the destination's active flag.
transfer_amount_first(accts, self, amount, other, clock) ==
    LET active == validate_active(accts[self])
        positive == validate_amount(amount)
        sufficient == validate_sufficient_balance(accts[self], amount)
        w == withdraw(accts, self, amount, clock)
        d == deposit(w.accounts, other.id, amount)
    IN  IF active # Returned THEN Result(accts, active, NotRead, <<>>)
        ELSE IF ~IsBankAccount(other)
        THEN Result(accts, ValidationError("Destination must be a BankAccount instance"),
                    NotRead, <<>>)
        ELSE IF other = Ref(self)
        THEN Result(accts, ValidationError("Cannot transfer to the same account"),
                    NotRead, <<>>)
        ELSE IF positive # Returned THEN Result(accts, positive, NotRead, <<>>)
        ELSE IF ~accts[other.id].active
        THEN Result(accts, ValidationError("Cannot transfer to a deactivated account"),
                    NotRead, <<>>)
        ELSE IF sufficient # Returned THEN Result(accts, sufficient, NotRead, <<>>)
        ELSE IF w.outcome # Returned
        THEN Result(w.accounts, w.outcome, w.now, <<"withdraw">>)
        ELSE Result(d.accounts, d.outcome, w.now, <<"withdraw", "deposit">>)

transfer(accts, self, amount, other, clock) ==
    LET active == validate_active(accts[self])
        positive == validate_amount(amount)
        sufficient == validate_sufficient_balance(accts[self], amount)
        w == withdraw(accts, self, amount, clock)
        d == deposit(w.accounts, other.id, amount)
    IN  IF active # Returned THEN Result(accts, active, NotRead, <<>>)
        ELSE IF ~IsBankAccount(other)
        THEN Result(accts, ValidationError("Destination must be a BankAccount instance"),
                    NotRead, <<>>)
        ELSE IF other = Ref(self)
        THEN Result(accts, ValidationError("Cannot transfer to the same account"),
                    NotRead, <<>>)
        ELSE IF ~accts[other.id].active
        THEN Result(accts, ValidationError("Cannot transfer to a deactivated account"),
                    NotRead, <<>>)
        ELSE IF positive # Returned THEN Result(accts, positive, NotRead, <<>>)
        ELSE IF sufficient # Returned THEN Result(accts, sufficient, NotRead, <<>>)
        ELSE IF w.outcome # Returned
        THEN Result(w.accounts, w.outcome, w.now, <<"withdraw">>)
        ELSE Result(d.accounts, d.outcome, w.now, <<"withdraw", "deposit">>)

\* Variant: the flag is flipped and an inactive account is not rejected.
deactivate_toggles(accts, self) ==
    IF accts[self].balance > 0
    THEN Result(accts, ValidationError("Cannot deactivate account with remaining balance"),
                NotRead, <<>>)
    ELSE Result([accts EXCEPT ![self].active = ~@], Returned, NotRead, <<>>)

\* Variant: the remaining balance is not checked.
deactivate_with_balance(accts, self) ==
    IF ~accts[self].active
    THEN Result(accts, ValidationError("Account is already deactivated"), NotRead, <<>>)
    ELSE Result([accts EXCEPT ![self].active = FALSE], Returned, NotRead, <<>>)

deactivate(accts, self) ==
    IF ~accts[self].active
    THEN Result(accts, ValidationError("Account is already deactivated"), NotRead, <<>>)
    ELSE IF accts[self].balance > 0
    THEN Result(accts, ValidationError("Cannot deactivate account with remaining balance"),
                NotRead, <<>>)
    ELSE Result([accts EXCEPT ![self].active = FALSE], Returned, NotRead, <<>>)

(* ------------------------------- actions ------------------------------- *)

\* What the caller passed and observed.  `given` tells whether the numeric
\* argument was passed; `self` is 0 when a construction raised.
\* `value` is <<v>> when the call returned the number v and `text` holds
\* the string arguments; both are empty for the calls on a BankAccount.
Call(op, self, given, amount, other, r) ==
    [op |-> op, self |-> self, given |-> given, amount |-> amount, other |-> other,
     now |-> r.now, calls |-> r.calls, outcome |-> r.outcome,
     value |-> <<>>, text |-> <<>>]

\* The model keeps every balance within MaxBalance.
InBounds(accts) == \A i \in DOMAIN accts : accts[i].balance <= MaxBalance

\* The values a caller may pass as the destination of a transfer; a tracked
\* account is a BankAccount of the heap.
Objects == {Ref(i) : i \in DOMAIN accounts} \cup {NoneObj, DictObj}

\* No call has ended since the caller last looked.
Idle == Call("none", 0, FALSE, 0, NoneObj, Result(<<>>, Returned, NotRead, <<>>))

\* The caller holds no User object.
NoUser == [name |-> <<>>, email |-> <<>>, accounts |-> <<>>, exists |-> FALSE]

\* The call before the last one was no deposit.
NoDeposit == [self |-> 0, amount |-> 0, before |-> 0, outcome |-> Returned, fresh |-> FALSE]

\* No caller runs a call step by step.
NoThreads == [mode |-> "none", start |-> <<>>, run |-> <<>>]

Init ==
    /\ accounts = <<>>
    /\ last = Idle
    /\ user = NoUser
    /\ prev = NoDeposit
    /\ simple = <<>>
    /\ threads = NoThreads

\* account = BankAccount() or BankAccount(balance)
Construct ==
    /\ last = Idle
    /\ \E given \in BOOLEAN, balance \in Amounts :
            LET b == IF given THEN balance ELSE DefaultBalance
                r == BankAccount_init(accounts, b)
            IN  /\ given \/ balance = DefaultBalance
                /\ Len(r.accounts) <= MaxAccounts
                /\ accounts' = r.accounts
                /\ last' = Call("__init__",
                                IF r.outcome = Returned THEN Len(r.accounts) ELSE 0,
                                given, b, NoneObj, r)

\* account.deposit(amount)
Deposit ==
    /\ last = Idle
    /\ \E self \in DOMAIN accounts, amount \in Amounts :
            LET r == deposit(accounts, self, amount)
            IN  /\ InBounds(r.accounts)
                /\ accounts' = r.accounts
                /\ last' = Call("deposit", self, TRUE, amount, NoneObj, r)

\* account.withdraw(amount), with datetime.now() returning a value of clocks
WithdrawAt(clocks) ==
    /\ last = Idle
    /\ \E self \in DOMAIN accounts, amount \in Amounts, clock \in clocks :
            LET r == withdraw(accounts, self, amount, clock)
            IN  /\ accounts' = r.accounts
                /\ last' = Call("withdraw", self, TRUE, amount, NoneObj, r)

Withdraw == WithdrawAt(Clocks)

\* account.transfer(amount, other), with datetime.now() returning a value of
\* clocks
TransferAt(clocks) ==
    /\ last = Idle
    /\ \E self \in DOMAIN accounts, amount \in Amounts, other \in Objects, clock \in clocks :
            LET r == transfer(accounts, self, amount, other, clock)
            IN  /\ InBounds(r.accounts)
                /\ accounts' = r.accounts
                /\ last' = Call("transfer", self, TRUE, amount, other, r)

Transfer == TransferAt(Clocks)

\* account.deactivate()
Deactivate ==
    /\ last = Idle
    /\ \E self \in DOMAIN accounts :
            LET r == deactivate(accounts, self)
            IN  /\ accounts' = r.accounts
                /\ last' = Call("deactivate", self, FALSE, 0, NoneObj, r)

\* The caller has taken the result or the exception of the call.
Observe ==
    /\ last # Idle
    /\ last' = Idle
    /\ UNCHANGED accounts

\* The calls on BankAccount objects alone: no User is built, and the call
\* before the last is not remembered.
Next ==
    \/ Construct /\ UNCHANGED <<user, prev, simple, threads>>
    \/ Deposit /\ UNCHANGED <<user, prev, simple, threads>>
    \/ Withdraw /\ UNCHANGED <<user, prev, simple, threads>>
    \/ Transfer /\ UNCHANGED <<user, prev, simple, threads>>
    \/ Deactivate /\ UNCHANGED <<user, prev, simple, threads>>
    \/ Observe /\ UNCHANGED <<user, prev, simple, threads>>

Spec == Init /\ [][Next]_vars

(* --------------------------------- User -------------------------------- *)
\* A Python str is the sequence of its characters.

Whitespace == {" ", "\t", "\n"}

RECURSIVE lstrip(_)
lstrip(str) ==
    IF str # <<>> /\ Head(str) \in Whitespace THEN lstrip(Tail(str)) ELSE str

RECURSIVE rstrip(_)
rstrip(str) ==
    IF str # <<>> /\ str[Len(str)] \in Whitespace
    THEN rstrip(SubSeq(str, 1, Len(str) - 1))
    ELSE str

\* str.strip()
strip(str) == rstrip(lstrip(str))

\* What a User operation leaves: the User object, the heap of accounts, the
\* exception raised (or Returned) and the value returned (<<>> for None).
UResult(u, accts, outcome, value) ==
    [user |-> u, accounts |-> accts, outcome |-> outcome, value |-> value]

\* Variant: the name is stored stripped of the whitespace around it.
set_name_stores_stripped(u, accts, name) ==
    IF name = <<>> \/ strip(name) = <<>>
    THEN UResult(u, accts, ValidationError("Name cannot be blank"), <<>>)
    ELSE UResult([u EXCEPT !.name = strip(name)], accts, Returned, <<>>)

\* @name.setter: "not name or name.strip() == ''"
set_name(u, accts, name) ==
    IF name = <<>> \/ strip(name) = <<>>
    THEN UResult(u, accts, ValidationError("Name cannot be blank"), <<>>)
    ELSE UResult([u EXCEPT !.name = name], accts, Returned, <<>>)

\* @email.setter
set_email(u, accts, email) ==
    IF email = <<>> \/ strip(email) = <<>>
    THEN UResult(u, accts, ValidationError("Email cannot be blank"), <<>>)
    ELSE UResult([u EXCEPT !.email = email], accts, Returned, <<>>)

\* User(name, email): the caller's variable is bound to the new object only
\* when the constructor returns.
User_init(u, accts, name, email) ==
    LET fresh == [name |-> <<>>, email |-> <<>>, accounts |-> <<>>, exists |-> TRUE]
        named == set_name(fresh, accts, name)
        mailed == set_email(named.user, accts, email)
    IN  IF named.outcome # Returned THEN UResult(u, accts, named.outcome, <<>>)
        ELSE IF mailed.outcome # Returned THEN UResult(u, accts, mailed.outcome, <<>>)
        ELSE UResult([mailed.user EXCEPT !.accounts = <<>>], accts, Returned, <<>>)

\* Variant: the account is put in front of the tracked ones.
add_account_prepends(u, accts, account) ==
    IF ~IsBankAccount(account)
    THEN UResult(u, accts, ValidationError("Account must be a BankAccount instance"), <<>>)
    ELSE UResult([u EXCEPT !.accounts = <<account>> \o @], accts, Returned, <<>>)

\* Variant: an account that is already tracked is not added again.
add_account_dedups(u, accts, account) ==
    IF ~IsBankAccount(account)
    THEN UResult(u, accts, ValidationError("Account must be a BankAccount instance"), <<>>)
    ELSE IF \E i \in DOMAIN u.accounts : u.accounts[i] = account
    THEN UResult(u, accts, Returned, <<>>)
    ELSE UResult([u EXCEPT !.accounts = Append(@, account)], accts, Returned, <<>>)

\* user.add_account(account)
add_account(u, accts, account) ==
    IF ~IsBankAccount(account)
    THEN UResult(u, accts, ValidationError("Account must be a BankAccount instance"), <<>>)
    ELSE UResult([u EXCEPT !.accounts = Append(@, account)], accts, Returned, <<>>)

\* sum(iterable): the items added from left to right, starting from 0.
RECURSIVE sum(_)
sum(items) == IF items = <<>> THEN 0 ELSE sum(SubSeq(items, 1, Len(items) - 1)) + items[Len(items)]

\* Variant: the last tracked account is left out of the sum.
total_balance_skips_last(u, accts) ==
    UResult(u, accts, Returned,
            <<sum([i \in 1..(Len(u.accounts) - 1) |-> accts[u.accounts[i].id].balance])>>)

\* Variant: the balances summed are swept out of the tracked accounts.
total_balance_sweeps(u, accts) ==
    UResult(u,
            [i \in DOMAIN accts |->
                IF \E j \in DOMAIN u.accounts : u.accounts[j].id = i
                THEN [accts[i] EXCEPT !.balance = 0] ELSE accts[i]],
            Returned,
            <<sum([i \in DOMAIN u.accounts |-> accts[u.accounts[i].id].balance])>>)

\* user.total_balance()
total_balance(u, accts) ==
    UResult(u, accts, Returned,
            <<sum([i \in DOMAIN u.accounts |-> accts[u.accounts[i].id].balance])>>)

\* user.name: the stored value.
name_getter(u, accts) == UResult(u, accts, Returned, <<u.name>>)

\* user.email: the stored value.
email_getter(u, accts) == UResult(u, accts, Returned, <<u.email>>)

\* A list as a caller holds it: `of` says which list object it is, the one
\* the User keeps in self.__accounts or another one.
TrackedList == "self.__accounts"

\* Variant: the accessor returns a copy of the list.
accounts_getter_copies(u, accts) ==
    UResult(u, accts, Returned, <<[of |-> "copy", items |-> u.accounts]>>)

\* user.accounts: "return self.__accounts", the list object itself.
accounts_getter(u, accts) ==
    UResult(u, accts, Returned, <<[of |-> TrackedList, items |-> u.accounts]>>)

\* lst.append(x), lst.pop() and lst.reverse() on a list lst the caller
\* holds: the User's list changes when lst is that very object.
list_append(u, accts, lst, x) ==
    UResult(IF lst.of = TrackedList THEN [u EXCEPT !.accounts = Append(@, x)] ELSE u,
            accts, Returned, <<>>)

list_pop(u, accts, lst) ==
    IF lst.items = <<>>
    THEN UResult(u, accts, [raised |-> "IndexError", msg |-> "pop from empty list"], <<>>)
    ELSE UResult(IF lst.of = TrackedList
                 THEN [u EXCEPT !.accounts = SubSeq(@, 1, Len(@) - 1)] ELSE u,
                 accts, Returned, <<lst.items[Len(lst.items)]>>)

list_reverse(u, accts, lst) ==
    UResult(IF lst.of = TrackedList
            THEN [u EXCEPT !.accounts = [i \in DOMAIN @ |-> @[Len(@) + 1 - i]]] ELSE u,
            accts, Returned, <<>>)

\* The number of accounts one User tracks.
MaxTracked == 2

StrObj == [type |-> "str", id |-> 0]

\* The names and e-mail addresses passed: empty, blank, and accepted ones.
Names == {<<>>, <<" ", " ", " ">>, <<"A", "n", "n">>, <<" ", "B", "o", " ">>}

Emails == {<<>>, <<" ", " ", " ">>, <<"a", "@", "b">>}

\* A call on the User as its caller sees it.
UserCall(op, other, text, r) ==
    [Call(op, 0, FALSE, 0, other, Result(r.accounts, r.outcome, NotRead, <<>>))
        EXCEPT !.value = r.value, !.text = text]

\* user = User(name, email)
NewUser ==
    /\ last = Idle
    /\ \E name \in Names, email \in Emails :
            LET r == User_init(user, accounts, name, email)
            IN  /\ user' = r.user
                /\ accounts' = r.accounts
                /\ last' = UserCall("User", NoneObj, <<name, email>>, r)

\* user.add_account(account)
AddAccount ==
    /\ last = Idle
    /\ user.exists
    /\ \E account \in Objects \cup {StrObj} :
            LET r == add_account(user, accounts, account)
            IN  /\ Len(r.user.accounts) <= MaxTracked
                /\ user' = r.user
                /\ accounts' = r.accounts
                /\ last' = UserCall("add_account", account, <<>>, r)

\* user.total_balance()
TotalBalance ==
    /\ last = Idle
    /\ user.exists
    /\ LET r == total_balance(user, accounts)
       IN  /\ user' = r.user
           /\ accounts' = r.accounts
           /\ last' = UserCall("total_balance", NoneObj, <<>>, r)

\* user.name = name
SetName ==
    /\ last = Idle
    /\ user.exists
    /\ \E name \in Names :
            LET r == set_name(user, accounts, name)
            IN  /\ user' = r.user
                /\ accounts' = r.accounts
                /\ last' = UserCall("name.setter", NoneObj, <<name>>, r)

\* user.email = email
SetEmail ==
    /\ last = Idle
    /\ user.exists
    /\ \E email \in Emails :
            LET r == set_email(user, accounts, email)
            IN  /\ user' = r.user
                /\ accounts' = r.accounts
                /\ last' = UserCall("email.setter", NoneObj, <<email>>, r)

\* user.name and user.email read
GetName ==
    /\ last = Idle
    /\ user.exists
    /\ LET r == name_getter(user, accounts)
       IN  /\ user' = r.user
           /\ accounts' = r.accounts
           /\ last' = UserCall("name", NoneObj, <<>>, r)

GetEmail ==
    /\ last = Idle
    /\ user.exists
    /\ LET r == email_getter(user, accounts)
       IN  /\ user' = r.user
           /\ accounts' = r.accounts
           /\ last' = UserCall("email", NoneObj, <<>>, r)

\* user.accounts read
GetAccounts ==
    /\ last = Idle
    /\ user.exists
    /\ LET r == accounts_getter(user, accounts)
       IN  /\ user' = r.user
           /\ accounts' = r.accounts
           /\ last' = UserCall("accounts", NoneObj, <<>>, r)

\* user.accounts.append(account): the caller appends an account to the list
\* the accessor returned.
AccountsAppend ==
    /\ last = Idle
    /\ user.exists
    /\ \E i \in DOMAIN accounts :
            LET got == accounts_getter(user, accounts)
                r == list_append(got.user, got.accounts, got.value[1], Ref(i))
            IN  /\ Len(r.user.accounts) <= MaxTracked
                /\ user' = r.user
                /\ accounts' = r.accounts
                /\ last' = UserCall("accounts.append", Ref(i), <<>>, r)

\* user.accounts.pop()
AccountsPop ==
    /\ last = Idle
    /\ user.exists
    /\ LET got == accounts_getter(user, accounts)
           r == list_pop(got.user, got.accounts, got.value[1])
       IN  /\ user' = r.user
           /\ accounts' = r.accounts
           /\ last' = UserCall("accounts.pop", NoneObj, <<>>, r)

\* user.accounts.reverse()
AccountsReverse ==
    /\ last = Idle
    /\ user.exists
    /\ LET got == accounts_getter(user, accounts)
           r == list_reverse(got.user, got.accounts, got.value[1])
       IN  /\ user' = r.user
           /\ accounts' = r.accounts
           /\ last' = UserCall("accounts.reverse", NoneObj, <<>>, r)

\* The calls on BankAccount objects and on the User that tracks them.
NextUser ==
    \/ Construct /\ UNCHANGED <<user, prev, simple, threads>>
    \/ Deposit /\ UNCHANGED <<user, prev, simple, threads>>
    \/ WithdrawAt(SampleClocks) /\ UNCHANGED <<user, prev, simple, threads>>
    \/ TransferAt(SampleClocks) /\ UNCHANGED <<user, prev, simple, threads>>
    \/ Deactivate /\ UNCHANGED <<user, prev, simple, threads>>
    \/ NewUser /\ UNCHANGED <<prev, simple, threads>>
    \/ AddAccount /\ UNCHANGED <<prev, simple, threads>>
    \/ TotalBalance /\ UNCHANGED <<prev, simple, threads>>
    \/ SetName /\ UNCHANGED <<prev, simple, threads>>
    \/ SetEmail /\ UNCHANGED <<prev, simple, threads>>
    \/ GetName /\ UNCHANGED <<prev, simple, threads>>
    \/ GetEmail /\ UNCHANGED <<prev, simple, threads>>
    \/ GetAccounts /\ UNCHANGED <<prev, simple, threads>>
    \/ AccountsAppend /\ UNCHANGED <<prev, simple, threads>>
    \/ AccountsPop /\ UNCHANGED <<prev, simple, threads>>
    \/ AccountsReverse /\ UNCHANGED <<prev, simple, threads>>
    \/ Observe /\ UNCHANGED <<user, prev, simple, threads>>

SpecUser == Init /\ [][NextUser]_vars

(* ------------------------- two calls in a row --------------------------- *)
\* The same calls, with `prev` remembering a deposit of an amount >= 0 into
\* an active account until the call after it has been observed: the
\* receiver, the amount, the balance before and what the deposit raised.

\* prev after the call c made on the heap accts.
Remembered(c, accts, p) ==
    IF c.op = "deposit" /\ accts[c.self].active /\ c.amount >= 0
    THEN [self |-> c.self, amount |-> c.amount, before |-> accts[c.self].balance,
          outcome |-> c.outcome, fresh |-> TRUE]
    ELSE [p EXCEPT !.fresh = FALSE]

Remember == prev' = Remembered(last', accounts, prev) /\ UNCHANGED <<user, simple, threads>>

\* The deposit is forgotten once the call after it has been observed.
Forget == prev' = (IF prev.fresh THEN prev ELSE NoDeposit) /\ UNCHANGED <<user, simple, threads>>

NextRoundTrip ==
    \/ Construct /\ Remember
    \/ Deposit /\ Remember
    \/ Withdraw /\ Remember
    \/ TransferAt(SampleClocks) /\ Remember
    \/ Deactivate /\ Remember
    \/ Observe /\ Forget

SpecRoundTrip == Init /\ [][NextRoundTrip]_vars

(* ----------------------------- geolocation ----------------------------- *)
\* geolocation/domain/ip_address.py and geolocation/app/geolocator.py.  The
\* functions are pure; `last` holds the call just made: its argument, the
\* repository the geolocator was built with, the arguments the repository
\* was called with, the exception raised and the value returned.

\* The largest value of an octet.
MaxOctet == 255

Digits == <<"0", "1", "2", "3", "4", "5", "6", "7", "8", "9">>

IsDigit(ch) == \E d \in DOMAIN Digits : Digits[d] = ch

DigitValue(ch) == (CHOOSE d \in DOMAIN Digits : Digits[d] = ch) - 1

\* A str object and an IpAddress object (a frozen dataclass: equal when the
\* octets are equal).
Str(text) == [type |-> "str", text |-> text]

IpAddress(octets) == [type |-> "IpAddress", octets |-> octets]

IsIpAddress(obj) == obj.type = "IpAddress"

ValueError(msg) == [raised |-> "ValueError", msg |-> msg]

RepositoryError(msg) == [raised |-> "RepositoryError", msg |-> msg]

\* What a call leaves: the exception raised (or Returned), the value
\* returned and the arguments of the calls made on the repository.
GResult(outcome, value, calls) == [outcome |-> outcome, value |-> value, calls |-> calls]

\* text.split(sep): the pieces of text between the separators; one piece,
\* the text itself, when there is no separator.
RECURSIVE split(_, _)
split(text, sep) ==
    IF \A i \in DOMAIN text : text[i] # sep THEN <<text>>
    ELSE LET k == CHOOSE i \in DOMAIN text :
                      text[i] = sep /\ \A j \in 1..(i - 1) : text[j] # sep
         IN  <<SubSeq(text, 1, k - 1)>> \o split(SubSeq(text, k + 1, Len(text)), sep)

\* sep.join(parts)
RECURSIVE join(_, _)
join(sep, parts) ==
    IF parts = <<>> THEN <<>>
    ELSE IF Len(parts) = 1 THEN parts[1]
    ELSE parts[1] \o <<sep>> \o join(sep, Tail(parts))

\* The number a sequence of digits writes in base 10.
RECURSIVE digits_value(_)
digits_value(ds) ==
    IF ds = <<>> THEN 0
    ELSE digits_value(SubSeq(ds, 1, Len(ds) - 1)) * 10 + DigitValue(ds[Len(ds)])

\* int(text): whitespace around the literal is dropped, a sign may lead, the
\* digits may be grouped by single underscores; anything else is a
\* ValueError.
int(text) ==
    LET t == strip(text)
        signed == t # <<>> /\ t[1] \in {"+", "-"}
        body == IF signed THEN Tail(t) ELSE t
        literal ==
            /\ body # <<>>
            /\ \A i \in DOMAIN body : IsDigit(body[i]) \/ body[i] = "_"
            /\ IsDigit(body[1])
            /\ IsDigit(body[Len(body)])
            /\ \A i \in 1..(Len(body) - 1) : ~(body[i] = "_" /\ body[i + 1] = "_")
        n == digits_value(SelectSeq(body, IsDigit))
    IN  IF ~literal
        THEN GResult(ValueError(<<"invalid literal for int() with base 10: ", text>>),
                     <<>>, <<>>)
        ELSE GResult(Returned, <<IF signed /\ t[1] = "-" THEN 0 - n ELSE n>>, <<>>)

\* str(n) of an int n
RECURSIVE int_str(_)
int_str(n) ==
    IF n < 0 THEN <<"-">> \o int_str(0 - n)
    ELSE IF n < 10 THEN <<Digits[n + 1]>>
    ELSE int_str(n \div 10) \o <<Digits[(n % 10) + 1]>>

\* Variant: 255 is out of range too.
from_string_exclusive(ip_string) ==
    LET parts == split(ip_string, ".")
        ints == [i \in DOMAIN parts |-> int(parts[i])]
        format == ValidationError(<<"Invalid IP address format: ", ip_string>>)
    IN  IF \E i \in DOMAIN ints : ints[i].outcome # Returned
        THEN GResult(format, <<>>, <<>>)
        ELSE LET octets == [i \in DOMAIN ints |-> ints[i].value[1]]
                 bad == {i \in DOMAIN octets : octets[i] < 0 \/ octets[i] >= MaxOctet}
             IN  IF Len(octets) # 4 THEN GResult(format, <<>>, <<>>)
                 ELSE IF bad # {}
                 THEN LET first == CHOOSE i \in bad : \A j \in bad : i <= j
                      IN  GResult(ValidationError(<<"Invalid IP address octet: ",
                                                    octets[first]>>), <<>>, <<>>)
                 ELSE GResult(Returned, <<IpAddress(octets)>>, <<>>)

\* IpAddress.from_string(ip_string): int() of every piece (its ValueError
\* is caught and raised again as the format error), then the number of
\* octets, then the range of each octet in turn.  The ValidationErrors
\* raised inside the try leave it as they are.
from_string(ip_string) ==
    LET parts == split(ip_string, ".")
        ints == [i \in DOMAIN parts |-> int(parts[i])]
        format == ValidationError(<<"Invalid IP address format: ", ip_string>>)
    IN  IF \E i \in DOMAIN ints : ints[i].outcome # Returned
        THEN GResult(format, <<>>, <<>>)
        ELSE LET octets == [i \in DOMAIN ints |-> ints[i].value[1]]
                 bad == {i \in DOMAIN octets : octets[i] < 0 \/ octets[i] > MaxOctet}
             IN  IF Len(octets) # 4 THEN GResult(format, <<>>, <<>>)
                 ELSE IF bad # {}
                 THEN LET first == CHOOSE i \in bad : \A j \in bad : i <= j
                      IN  GResult(ValidationError(<<"Invalid IP address octet: ",
                                                    octets[first]>>), <<>>, <<>>)
                 ELSE GResult(Returned, <<IpAddress(octets)>>, <<>>)

\* str(ip) of an IpAddress: '.'.join(str(octet) for octet in self.octets)
IpAddress_str(ip) == join(".", [i \in DOMAIN ip.octets |-> int_str(ip.octets[i])])

\* repository.get_location_by_ip(ip) of a repository that returns a
\* Geolocation or raises an exception.
get_location_by_ip(repository, ip) ==
    IF repository.kind = "returns"
    THEN GResult(Returned, <<repository.value>>, <<ip>>)
    ELSE GResult(repository.error, <<>>, <<ip>>)

\* Variant: a failing lookup is tried once more.
get_location_retries(repository, ip) ==
    LET parsed == IF IsIpAddress(ip) THEN GResult(Returned, <<ip>>, <<>>)
                  ELSE IF ip.type = "str" THEN from_string(ip.text)
                  ELSE GResult([raised |-> "AttributeError",
                                msg |-> "object has no attribute 'split'"], <<>>, <<>>)
    IN  IF parsed.outcome # Returned
        THEN GResult(RepositoryError(parsed.outcome.msg), <<>>, <<>>)
        ELSE LET found == get_location_by_ip(repository, parsed.value[1])
             IN  IF found.outcome # Returned
                 THEN GResult(RepositoryError(found.outcome.msg), <<>>,
                              found.calls \o found.calls)
                 ELSE GResult(Returned, found.value, found.calls)

\* geolocator.get_location(ip) of an IpAddressGeolocator built with the
\* repository: every exception of the parse and of the repository is raised
\* again as RepositoryError(str(e)).
get_location(repository, ip) ==
    LET parsed == IF IsIpAddress(ip) THEN GResult(Returned, <<ip>>, <<>>)
                  ELSE IF ip.type = "str" THEN from_string(ip.text)
                  ELSE GResult([raised |-> "AttributeError",
                                msg |-> "object has no attribute 'split'"], <<>>, <<>>)
    IN  IF parsed.outcome # Returned
        THEN GResult(RepositoryError(parsed.outcome.msg), <<>>, <<>>)
        ELSE LET found == get_location_by_ip(repository, parsed.value[1])
             IN  IF found.outcome # Returned
                 THEN GResult(RepositoryError(found.outcome.msg), <<>>, found.calls)
                 ELSE GResult(Returned, found.value, found.calls)

\* The pieces the strings passed are made of: octets in and out of range,
\* an empty piece, a word, and the literals int() reads as numbers.
Pieces ==
    {<<>>, <<"0">>, <<"7">>, <<"2", "5", "5">>, <<"2", "5", "6">>, <<"-", "1">>,
     <<"a">>, <<"+", "1">>, <<" ", "1">>, <<"0", "7">>, <<"1", "_", "0">>}

FewPieces == {<<"7">>, <<"2", "5", "5">>}

\* The strings passed to from_string: four pieces, three and five pieces,
\* the empty string and a string with another separator.
IpStrings ==
    {join(".", p) : p \in [1..4 -> Pieces]}
        \cup {join(".", p) : p \in [1..3 -> FewPieces]}
        \cup {join(".", p) : p \in [1..5 -> FewPieces]}
        \cup {<<>>, <<"7">>, <<"7", ",", "7", ",", "7", ",", "7">>}

\* The strings passed to get_location.
LookupStrings ==
    {join(".", p) : p \in [1..4 -> {<<"7">>, <<"2", "5", "6">>, <<"+", "1">>}]}
        \cup {<<>>, <<"7", ".", "7", ".", "7">>,
              <<"i", "n", "v", "a", "l", "i", "d", ".", "i", "p">>}

\* The octets of the IpAddress objects passed.
SampleOctets == {0, 7, 10, 99, 100, MaxOctet}

IpAddresses == {IpAddress(o) : o \in [1..4 -> SampleOctets]}

\* The Geolocations and the repositories: one that returns a location, one
\* that raises Exception("API Error"), one that raises a RepositoryError.
Geolocations ==
    {[country |-> "US", city |-> "Mountain View", latitude |-> 37, longitude |-> 0 - 122],
     [country |-> "US", city |-> "Los Angeles", latitude |-> 34, longitude |-> 0 - 118]}

Repositories ==
    {[kind |-> "returns", value |-> g] : g \in Geolocations}
        \cup {[kind |-> "raises", error |-> [raised |-> "Exception", msg |-> "API Error"]],
              [kind |-> "raises",
               error |-> RepositoryError("Failed to fetch geolocation data: timeout")]}

\* A geolocation call as its caller sees it.
GeoCall(op, ip, text, repository, r) ==
    [op |-> op, ip |-> ip, text |-> text, repository |-> repository,
     calls |-> r.calls, outcome |-> r.outcome, value |-> r.value]

\* IpAddress.from_string(ip_string)
FromString ==
    /\ last = Idle
    /\ \E ip_string \in IpStrings :
            last' = GeoCall("from_string", Str(ip_string), ip_string, NoneObj,
                            from_string(ip_string))

\* IpAddress.from_string(str(ip)) of an IpAddress ip
FromStringOfStr ==
    /\ last = Idle
    /\ \E ip \in IpAddresses :
            last' = GeoCall("from_string(str(ip))", ip, IpAddress_str(ip), NoneObj,
                            from_string(IpAddress_str(ip)))

\* IpAddressGeolocator(repository).get_location(ip)
GetLocation ==
    /\ last = Idle
    /\ \E repository \in Repositories :
        \E ip \in {Str(t) : t \in LookupStrings}
                    \cup {IpAddress(<<1, 1, 1, 1>>), IpAddress(<<0, 7, 99, MaxOctet>>), NoneObj} :
            last' = GeoCall("get_location", ip, <<>>, repository,
                            get_location(repository, ip))

NextGeo ==
    \/ FromString /\ UNCHANGED <<accounts, user, prev, simple, threads>>
    \/ FromStringOfStr /\ UNCHANGED <<accounts, user, prev, simple, threads>>
    \/ GetLocation /\ UNCHANGED <<accounts, user, prev, simple, threads>>
    \/ Observe /\ UNCHANGED <<user, prev, simple, threads>>

SpecGeo == Init /\ [][NextGeo]_vars

(* ----------------------- the simpler BankAccount ----------------------- *)
\* src/bank_account.py: the same calls without the active checks, the
\* business window and the check of the initial balance; it raises
\* ValueError.  Its objects live in the heap `simple`.

SimpleRef(i) == [type |-> "bank_account.BankAccount", id |-> i]

IsSimpleAccount(obj) == obj.type = "bank_account.BankAccount"

\* BankAccount(balance): every balance is taken.
simple_init(accts, balance) ==
    Result(Append(accts, [balance |-> balance, active |-> TRUE]), Returned, NotRead, <<>>)

simple_deposit(accts, self, amount) ==
    IF amount < 0
    THEN Result(accts, ValueError("Amount must be positive"), NotRead, <<>>)
    ELSE Result([accts EXCEPT ![self].balance = @ + amount], Returned, NotRead, <<>>)

\* Variant: the balance is not compared with the amount.
simple_withdraw_unchecked(accts, self, amount) ==
    IF amount < 0
    THEN Result(accts, ValueError("Amount must be positive"), NotRead, <<>>)
    ELSE Result([accts EXCEPT ![self].balance = @ - amount], Returned, NotRead, <<>>)

simple_withdraw(accts, self, amount) ==
    IF amount < 0
    THEN Result(accts, ValueError("Amount must be positive"), NotRead, <<>>)
    ELSE IF amount > accts[self].balance
    THEN Result(accts, ValueError("Insufficient balance"), NotRead, <<>>)
    ELSE Result([accts EXCEPT ![self].balance = @ - amount], Returned, NotRead, <<>>)

simple_transfer(accts, self, amount, other) ==
    LET w == simple_withdraw(accts, self, amount)
        d == simple_deposit(w.accounts, other.id, amount)
    IN  IF ~IsSimpleAccount(other)
        THEN Result(accts, ValueError("Destination must be a BankAccount instance"),
                    NotRead, <<>>)
        ELSE IF other = SimpleRef(self)
        THEN Result(accts, ValueError("Cannot transfer to the same account"), NotRead, <<>>)
        ELSE IF amount < 0
        THEN Result(accts, ValueError("Amount must be positive"), NotRead, <<>>)
        ELSE IF amount > accts[self].balance
        THEN Result(accts, ValueError("Insufficient balance"), NotRead, <<>>)
        ELSE IF w.outcome # Returned
        THEN Result(w.accounts, w.outcome, NotRead, <<"withdraw">>)
        ELSE Result(d.accounts, d.outcome, NotRead, <<"withdraw", "deposit">>)

\* deactivate(): the body is `pass`.
simple_deactivate(accts, self) == Result(accts, Returned, NotRead, <<>>)

\* The values passed as the destination of a transfer of the simpler class.
SimpleObjects == {SimpleRef(i) : i \in DOMAIN simple} \cup {NoneObj, DictObj}

SimpleConstruct ==
    /\ last = Idle
    /\ \E given \in BOOLEAN, balance \in Amounts :
            LET b == IF given THEN balance ELSE DefaultBalance
                r == simple_init(simple, b)
            IN  /\ given \/ balance = DefaultBalance
                /\ Len(r.accounts) <= MaxAccounts
                /\ simple' = r.accounts
                /\ last' = Call("__init__", Len(r.accounts), given, b, NoneObj, r)

SimpleDeposit ==
    /\ last = Idle
    /\ \E self \in DOMAIN simple, amount \in Amounts :
            LET r == simple_deposit(simple, self, amount)
            IN  /\ InBounds(r.accounts)
                /\ simple' = r.accounts
                /\ last' = Call("deposit", self, TRUE, amount, NoneObj, r)

SimpleWithdraw ==
    /\ last = Idle
    /\ \E self \in DOMAIN simple, amount \in Amounts :
            LET r == simple_withdraw(simple, self, amount)
            IN  /\ simple' = r.accounts
                /\ last' = Call("withdraw", self, TRUE, amount, NoneObj, r)

SimpleTransfer ==
    /\ last = Idle
    /\ \E self \in DOMAIN simple, amount \in Amounts, other \in SimpleObjects :
            LET r == simple_transfer(simple, self, amount, other)
            IN  /\ InBounds(r.accounts)
                /\ simple' = r.accounts
                /\ last' = Call("transfer", self, TRUE, amount, other, r)

SimpleDeactivate ==
    /\ last = Idle
    /\ \E self \in DOMAIN simple :
            LET r == simple_deactivate(simple, self)
            IN  /\ simple' = r.accounts
                /\ last' = Call("deactivate", self, FALSE, 0, NoneObj, r)

\* The calls on objects of the simpler class alone.
NextSimple ==
    \/ SimpleConstruct /\ UNCHANGED <<accounts, user, prev, threads>>
    \/ SimpleDeposit /\ UNCHANGED <<accounts, user, prev, threads>>
    \/ SimpleWithdraw /\ UNCHANGED <<accounts, user, prev, threads>>
    \/ SimpleTransfer /\ UNCHANGED <<accounts, user, prev, threads>>
    \/ SimpleDeactivate /\ UNCHANGED <<accounts, user, prev, threads>>
    \/ Observe /\ UNCHANGED <<user, prev, simple, threads>>

SpecSimple == Init /\ [][NextSimple]_vars

\* The same calls made on both classes side by side: the i-th object of one
\* class stands for the i-th object of the other, the initial balances are
\* not negative, deactivate is not called and datetime.now() is inside the
\* business window.
WindowClocks == {[weekday |-> 0, hour |-> 9], [weekday |-> 4, hour |-> 17]}

\* The simpler object that stands for a value passed to the canonical class.
Counterpart(obj) == IF IsBankAccount(obj) THEN SimpleRef(obj.id) ELSE obj

\* The call on the canonical class, with what the simpler class raised.
BothCall(c, s) ==
    [op |-> c.op, self |-> c.self, given |-> c.given, amount |-> c.amount,
     other |-> c.other, now |-> c.now, calls |-> c.calls, outcome |-> c.outcome,
     value |-> c.value, text |-> c.text, simple |-> s.outcome]

BothConstruct ==
    /\ last = Idle
    /\ \E given \in BOOLEAN, balance \in 0..MaxBalance :
            LET b == IF given THEN balance ELSE DefaultBalance
                r == BankAccount_init(accounts, b)
                s == simple_init(simple, b)
            IN  /\ given \/ balance = DefaultBalance
                /\ Len(r.accounts) <= MaxAccounts
                /\ accounts' = r.accounts
                /\ simple' = s.accounts
                /\ last' = BothCall(Call("__init__", Len(r.accounts), given, b, NoneObj, r), s)

BothDeposit ==
    /\ last = Idle
    /\ \E self \in DOMAIN accounts, amount \in Amounts :
            LET r == deposit(accounts, self, amount)
                s == simple_deposit(simple, self, amount)
            IN  /\ InBounds(r.accounts)
                /\ accounts' = r.accounts
                /\ simple' = s.accounts
                /\ last' = BothCall(Call("deposit", self, TRUE, amount, NoneObj, r), s)

BothWithdraw ==
    /\ last = Idle
    /\ \E self \in DOMAIN accounts, amount \in Amounts, clock \in WindowClocks :
            LET r == withdraw(accounts, self, amount, clock)
                s == simple_withdraw(simple, self, amount)
            IN  /\ accounts' = r.accounts
                /\ simple' = s.accounts
                /\ last' = BothCall(Call("withdraw", self, TRUE, amount, NoneObj, r), s)

BothTransfer ==
    /\ last = Idle
    /\ \E self \in DOMAIN accounts, amount \in Amounts, other \in Objects,
          clock \in WindowClocks :
            LET r == transfer(accounts, self, amount, other, clock)
                s == simple_transfer(simple, self, amount, Counterpart(other))
            IN  /\ InBounds(r.accounts)
                /\ accounts' = r.accounts
                /\ simple' = s.accounts
                /\ last' = BothCall(Call("transfer", self, TRUE, amount, other, r), s)

\* The caller has taken the results of the two calls.
BothObserve == Observe /\ UNCHANGED simple

NextBoth ==
    \/ BothConstruct /\ UNCHANGED <<user, prev, threads>>
    \/ BothDeposit /\ UNCHANGED <<user, prev, threads>>
    \/ BothWithdraw /\ UNCHANGED <<user, prev, threads>>
    \/ BothTransfer /\ UNCHANGED <<user, prev, threads>>
    \/ BothObserve /\ UNCHANGED <<user, prev, threads>>

SpecBoth == Init /\ [][NextBoth]_vars

(* --------------------------- interleaved calls -------------------------- *)
\* Two callers run withdraw and transfer of bank_account.py statement by
\* statement on two active accounts.  The class has no lock: in the mode
\* "interleaved" a caller may take a step whenever it is inside a call; in
\* the mode "atomic" a call starts only when no other call is under way, as
\* in the single-threaded program.  `self.__balance -= amount` and
\* `self.__balance += amount` are a read of the attribute followed by a
\* write of the new value.

Callers == {"A", "B"}

\* datetime.now() of the interleaved calls: a Monday at noon.
Noon == [weekday |-> 0, hour |-> 12]

\* A caller outside every call, and the call a caller makes.
NoCall ==
    [op |-> "none", self |-> 0, amount |-> 0, other |-> 0,
     pc |-> "idle", local |-> 0, outcome |-> Returned]

Started(op, self, amount, other) ==
    [op |-> op, self |-> self, amount |-> amount, other |-> other,
     pc |-> IF op = "transfer" THEN "transfer.checks" ELSE "withdraw.checks",
     local |-> 0, outcome |-> Returned]

\* The call of the caller has ended with the outcome.
Ended(th, outcome) == [th EXCEPT !.pc = "done", !.outcome = outcome]

\* No call is under way for a caller other than t.
NoOtherCall(t) ==
    \A u \in Callers \ {t} : threads.run[u].pc \in {"idle", "done"}

InitThreads ==
    /\ \E b1 \in 0..MaxBalance, b2 \in 0..MaxBalance :
            accounts = <<[balance |-> b1, active |-> TRUE], [balance |-> b2, active |-> TRUE]>>
    /\ \E mode \in {"atomic", "interleaved"} :
            threads = [mode |-> mode, start |-> accounts, run |-> [t \in Callers |-> NoCall]]
    /\ last = Idle
    /\ user = NoUser
    /\ prev = NoDeposit
    /\ simple = <<>>

\* The caller t: account.withdraw(amount) is entered
BeginWithdraw(t) ==
    /\ threads.run[t].pc = "idle"
    /\ threads.mode = "atomic" => NoOtherCall(t)
    /\ \E self \in DOMAIN accounts, amount \in Amounts :
            threads' = [threads EXCEPT !.run[t] = Started("withdraw", self, amount, 0)]
    /\ UNCHANGED accounts

\* The caller t: account.transfer(amount, other) is entered
BeginTransfer(t) ==
    /\ threads.run[t].pc = "idle"
    /\ threads.mode = "atomic" => NoOtherCall(t)
    /\ \E self \in DOMAIN accounts, amount \in Amounts :
        \E other \in DOMAIN accounts \ {self} :
            threads' = [threads EXCEPT !.run[t] = Started("transfer", self, amount, other)]
    /\ UNCHANGED accounts

\* transfer: the checks before self.withdraw(amount)
TransferChecks(t) ==
    LET th == threads.run[t]
        active == validate_active(accounts[th.self])
        positive == validate_amount(th.amount)
        sufficient == validate_sufficient_balance(accounts[th.self], th.amount)
        raised ==
            IF active # Returned THEN active
            ELSE IF th.other = th.self
            THEN ValidationError("Cannot transfer to the same account")
            ELSE IF ~accounts[th.other].active
            THEN ValidationError("Cannot transfer to a deactivated account")
            ELSE IF positive # Returned THEN positive
            ELSE sufficient
    IN  /\ th.pc = "transfer.checks"
        /\ threads' = [threads EXCEPT !.run[t] =
                          IF raised # Returned THEN Ended(th, raised)
                          ELSE [th EXCEPT !.pc = "withdraw.checks"]]
        /\ UNCHANGED accounts

\* withdraw: the four validations
WithdrawChecks(t) ==
    LET th == threads.run[t]
        active == validate_active(accounts[th.self])
        positive == validate_amount(th.amount)
        sufficient == validate_sufficient_balance(accounts[th.self], th.amount)
        in_time == validate_within_withdrawal_time(Noon)
        raised ==
            IF active # Returned THEN active
            ELSE IF positive # Returned THEN positive
            ELSE IF sufficient # Returned THEN sufficient
            ELSE in_time
    IN  /\ th.pc = "withdraw.checks"
        /\ threads' = [threads EXCEPT !.run[t] =
                          IF raised # Returned THEN Ended(th, raised)
                          ELSE [th EXCEPT !.pc = "withdraw.read"]]
        /\ UNCHANGED accounts

\* withdraw: self.__balance is read
WithdrawRead(t) ==
    LET th == threads.run[t]
    IN  /\ th.pc = "withdraw.read"
        /\ threads' = [threads EXCEPT !.run[t] =
                          [th EXCEPT !.pc = "withdraw.write",
                                     !.local = accounts[th.self].balance]]
        /\ UNCHANGED accounts

\* withdraw: self.__balance is written
WithdrawWrite(t) ==
    LET th == threads.run[t]
    IN  /\ th.pc = "withdraw.write"
        /\ accounts' = [accounts EXCEPT ![th.self].balance = th.local - th.amount]
        /\ threads' = [threads EXCEPT !.run[t] =
                          IF th.op = "transfer" THEN [th EXCEPT !.pc = "deposit.checks"]
                          ELSE Ended(th, Returned)]

\* deposit of the transfer: the two validations
DepositChecks(t) ==
    LET th == threads.run[t]
        active == validate_active(accounts[th.other])
        positive == validate_amount(th.amount)
        raised == IF active # Returned THEN active ELSE positive
    IN  /\ th.pc = "deposit.checks"
        /\ threads' = [threads EXCEPT !.run[t] =
                          IF raised # Returned THEN Ended(th, raised)
                          ELSE [th EXCEPT !.pc = "deposit.read"]]
        /\ UNCHANGED accounts

\* deposit: other.__balance is read
DepositRead(t) ==
    LET th == threads.run[t]
    IN  /\ th.pc = "deposit.read"
        /\ threads' = [threads EXCEPT !.run[t] =
                          [th EXCEPT !.pc = "deposit.write",
                                     !.local = accounts[th.other].balance]]
        /\ UNCHANGED accounts

\* deposit: other.__balance is written
DepositWrite(t) ==
    LET th == threads.run[t]
    IN  /\ th.pc = "deposit.write"
        /\ accounts' = [accounts EXCEPT ![th.other].balance = th.local + th.amount]
        /\ threads' = [threads EXCEPT !.run[t] = Ended(th, Returned)]

NextThreads ==
    \/ \E t \in Callers : BeginWithdraw(t) /\ UNCHANGED <<last, user, prev, simple>>
    \/ \E t \in Callers : BeginTransfer(t) /\ UNCHANGED <<last, user, prev, simple>>
    \/ \E t \in Callers : TransferChecks(t) /\ UNCHANGED <<last, user, prev, simple>>
    \/ \E t \in Callers : WithdrawChecks(t) /\ UNCHANGED <<last, user, prev, simple>>
    \/ \E t \in Callers : WithdrawRead(t) /\ UNCHANGED <<last, user, prev, simple>>
    \/ \E t \in Callers : WithdrawWrite(t) /\ UNCHANGED <<last, user, prev, simple>>
    \/ \E t \in Callers : DepositChecks(t) /\ UNCHANGED <<last, user, prev, simple>>
    \/ \E t \in Callers : DepositRead(t) /\ UNCHANGED <<last, user, prev, simple>>
    \/ \E t \in Callers : DepositWrite(t) /\ UNCHANGED <<last, user, prev, simple>>

SpecThreads == InitThreads /\ [][NextThreads]_vars

(* ------------------------------ properties ----------------------------- *)

\* The call ended by raising a ValidationError.
Failed(c) == c.outcome.raised = "ValidationError"

\* The business window as the design states it: Monday..Friday, 9 <= hour <= 17.
InBusinessWindow(now) == now.weekday \in 0..4 /\ now.hour \in 9..17

Balances(accts) == [i \in DOMAIN accts |-> accts[i].balance]

\* other is a BankAccount of the heap that is not the account self.
DistinctAccount(self, other) ==
    IsBankAccount(other) /\ other.id \in DOMAIN accounts /\ other.id # self

\* C1: after any sequence of construction, deposit, withdraw, transfer and
\* deactivate calls, successful or failing, at any clock value, every
\* account's balance is >= 0.
C1_BalanceNonNegative == \A i \in DOMAIN accounts : accounts[i].balance >= 0

\* A withdraw of the whole positive balance has succeeded.
C1_Witness ==
    /\ last.op = "withdraw"
    /\ last.outcome = Returned
    /\ last.amount > 0
    /\ accounts[last.self].balance = 0

\* C2: an account is active when constructed, and an account that is
\* inactive is inactive after every step, whatever is called on any account.
C2_ActiveMonotonic ==
    [][ /\ \A i \in DOMAIN accounts :
              i \in DOMAIN accounts' /\ (~accounts[i].active => ~accounts'[i].active)
        /\ \A i \in DOMAIN accounts' \ DOMAIN accounts : accounts'[i].active ]_vars

\* deactivate was called on an account that was already inactive.
C2_Witness ==
    /\ last.op = "deactivate"
    /\ last.outcome = ValidationError("Account is already deactivated")
    /\ ~accounts[last.self].active

\* C3: on an inactive account every deposit, withdraw and transfer from it,
\* and every transfer to it, raises a ValidationError and leaves every
\* balance as it was, for every amount and clock value.
C3_InactiveRejects ==
    [][ LET c == last'
        IN  /\ (c.op \in {"deposit", "withdraw", "transfer"} /\ ~accounts[c.self].active)
                  => Failed(c) /\ Balances(accounts') = Balances(accounts)
            /\ (c.op = "transfer" /\ DistinctAccount(c.self, c.other)
                  /\ ~accounts[c.other.id].active)
                  => Failed(c) /\ Balances(accounts') = Balances(accounts) ]_vars

\* A transfer from an active account with funds to an inactive one was refused.
C3_Witness ==
    /\ last.op = "transfer"
    /\ IsBankAccount(last.other)
    /\ accounts[last.self].active
    /\ ~accounts[last.other.id].active
    /\ last.amount \in 1..accounts[last.self].balance
    /\ Failed(last)

\* C4: deactivate() succeeds exactly when the account is active with balance
\* 0; on success the account is inactive and its balance unchanged; it fails
\* on an inactive account and on a positive balance, leaving active and
\* balance unchanged.
C4_DeactivateContract ==
    [][ LET c == last'
        IN  c.op = "deactivate" =>
              LET a == accounts[c.self]
              IN  /\ c.outcome = Returned <=> (a.active /\ a.balance = 0)
                  /\ c.outcome = Returned =>
                        accounts' = [accounts EXCEPT ![c.self] =
                                        [balance |-> a.balance, active |-> FALSE]]
                  /\ (~a.active \/ a.balance > 0) => Failed(c)
                  /\ c.outcome # Returned => Failed(c) /\ accounts' = accounts ]_vars

\* deactivate has succeeded on an account while another one holds money.
C4_Witness ==
    /\ last.op = "deactivate"
    /\ last.outcome = Returned
    /\ accounts[last.self] = [balance |-> 0, active |-> FALSE]
    /\ \E i \in DOMAIN accounts : accounts[i].balance > 0

\* C5: between two distinct active accounts with balances s and d, a transfer
\* of a with 0 <= a <= s made inside the business window succeeds and leaves
\* s - a in the source and d + a in the destination, so s + d is unchanged.
C5_TransferConservation ==
    [][ LET c == last'
        IN  (/\ c.op = "transfer"
             /\ DistinctAccount(c.self, c.other)
             /\ accounts[c.self].active
             /\ accounts[c.other.id].active
             /\ c.amount \in 0..accounts[c.self].balance)
            => /\ c.now \in Clocks
               /\ InBusinessWindow(c.now) =>
                    /\ c.outcome = Returned
                    /\ accounts' = [accounts EXCEPT
                                      ![c.self].balance = accounts[c.self].balance - c.amount,
                                      ![c.other.id].balance = accounts[c.other.id].balance + c.amount]
                    /\ accounts'[c.self].balance + accounts'[c.other.id].balance
                         = accounts[c.self].balance + accounts[c.other.id].balance ]_vars

\* A transfer of the whole positive balance to an account that already held
\* money has succeeded.
C5_Witness ==
    /\ last.op = "transfer"
    /\ last.outcome = Returned
    /\ last.amount > 0
    /\ accounts[last.self].balance = 0
    /\ accounts[last.other.id].balance > last.amount

\* The heap after amount has moved from account self to account other.
Moved(accts, self, other, amount) ==
    [accts EXCEPT ![self].balance = accts[self].balance - amount,
                  ![other.id].balance = accts[other.id].balance + amount]

\* C6: every transfer either returns with the source debited and the
\* destination credited by the same amount, or raises with the heap as it
\* was; once the inner withdraw has succeeded the inner deposit never fails.
C6_TransferAtomic ==
    [][ LET c == last'
        IN  c.op = "transfer" =>
              /\ \/ /\ c.outcome = Returned
                    /\ DistinctAccount(c.self, c.other)
                    /\ accounts' = Moved(accounts, c.self, c.other, c.amount)
                 \/ /\ Failed(c)
                    /\ accounts' = accounts
              /\ c.calls = <<"withdraw", "deposit">> => c.outcome = Returned
              /\ c.outcome = Returned => c.calls = <<"withdraw", "deposit">> ]_vars

\* A transfer has run its withdraw and its deposit and moved money.
C6_Witness ==
    /\ last.op = "transfer"
    /\ last.calls = <<"withdraw", "deposit">>
    /\ last.outcome = Returned
    /\ last.amount > 0
    /\ accounts[last.self].balance > 0

\* C7: a transfer to the source itself, to a value that is no BankAccount,
\* from an inactive source, to an inactive destination, of more than the
\* source's balance or of a negative amount raises a ValidationError and
\* leaves balance and active of every account unchanged.
C7_TransferRejects ==
    [][ LET c == last'
        IN  (/\ c.op = "transfer"
             /\ \/ c.other = Ref(c.self)
                \/ ~IsBankAccount(c.other)
                \/ ~accounts[c.self].active
                \/ DistinctAccount(c.self, c.other) /\ ~accounts[c.other.id].active
                \/ c.amount > accounts[c.self].balance
                \/ c.amount < 0)
            => Failed(c) /\ accounts' = accounts ]_vars

\* A transfer of a negative amount between two active accounts was refused.
C7_Witness ==
    /\ last.op = "transfer"
    /\ last.amount < 0
    /\ IsBankAccount(last.other)
    /\ last.other.id # last.self
    /\ accounts[last.self].active
    /\ accounts[last.other.id].active
    /\ Failed(last)

\* C8: a transfer between two distinct active accounts of an amount within
\* the source's balance, made outside the business window, raises a
\* ValidationError from its withdraw, never calls deposit and changes no
\* balance.
C8_TransferOutsideWindow ==
    [][ LET c == last'
        IN  (/\ c.op = "transfer"
             /\ DistinctAccount(c.self, c.other)
             /\ accounts[c.self].active
             /\ accounts[c.other.id].active
             /\ c.amount \in 0..accounts[c.self].balance)
            => /\ c.now \in Clocks
               /\ ~InBusinessWindow(c.now) =>
                    /\ Failed(c)
                    /\ c.calls = <<"withdraw">>
                    /\ accounts' = accounts ]_vars

\* A transfer of available money was refused on a Saturday at noon.
C8_Witness ==
    /\ last.op = "transfer"
    /\ last.calls = <<"withdraw">>
    /\ Failed(last)
    /\ last.now = [weekday |-> 5, hour |-> 12]
    /\ last.amount \in 1..accounts[last.self].balance

\* C9: on an active account, a withdraw of an amount with 0 <= amount <=
\* balance succeeds exactly when the clock shows Monday..Friday and an hour
\* in 9..17: hours 9 and 17 pass, hours 8 and 18 and every weekend hour fail.
C9_WithdrawWindow ==
    [][ LET c == last'
        IN  (/\ c.op = "withdraw"
             /\ accounts[c.self].active
             /\ c.amount \in 0..accounts[c.self].balance)
            => /\ c.now \in Clocks
               /\ c.outcome = Returned <=> InBusinessWindow(c.now)
               /\ c.outcome # Returned => Failed(c)
               /\ c.now.hour \in {9, 17} /\ c.now.weekday <= 4 => c.outcome = Returned
               /\ c.now.hour \in {8, 18} => Failed(c)
               /\ c.now.weekday \in {5, 6} => Failed(c) ]_vars

\* A withdraw of money has succeeded on a Friday at hour 17.
C9_Witness ==
    /\ last.op = "withdraw"
    /\ last.outcome = Returned
    /\ last.amount > 0
    /\ last.now = [weekday |-> 4, hour |-> 17]

\* C10: BankAccount(b) with b >= 0, and BankAccount() with b = 0, creates an
\* account with balance b that is active; with b < 0 it raises a
\* ValidationError and creates no account.
C10_Construction ==
    [][ LET c == last'
        IN  c.op = "__init__" =>
              /\ ~c.given => c.amount = 0
              /\ c.amount >= 0 =>
                    /\ c.outcome = Returned
                    /\ accounts' = Append(accounts, [balance |-> c.amount, active |-> TRUE])
                    /\ c.self = Len(accounts')
              /\ c.amount < 0 => Failed(c) /\ accounts' = accounts ]_vars

\* BankAccount() has created an active account with balance 0 beside an
\* account created with a positive balance.
C10_Witness ==
    /\ last.op = "__init__"
    /\ ~last.given
    /\ last.outcome = Returned
    /\ accounts[last.self] = [balance |-> 0, active |-> TRUE]
    /\ \E i \in DOMAIN accounts : accounts[i].balance > 0

\* C11: a withdraw that succeeds lowers the account's balance by exactly the
\* amount (to 0 when the amount is the balance), and changes neither its
\* active flag nor any other account.
C11_WithdrawEffect ==
    [][ LET c == last'
        IN  (c.op = "withdraw" /\ c.outcome = Returned) =>
              /\ accounts' = [accounts EXCEPT ![c.self] =
                                [balance |-> accounts[c.self].balance - c.amount,
                                 active |-> accounts[c.self].active]]
              /\ c.amount = accounts[c.self].balance => accounts'[c.self].balance = 0 ]_vars

\* A withdraw of part of the balance has succeeded beside another account
\* that holds money.
C11_Witness ==
    /\ last.op = "withdraw"
    /\ last.outcome = Returned
    /\ last.amount > 0
    /\ accounts[last.self].balance > 0
    /\ \E i \in DOMAIN accounts : i # last.self /\ accounts[i].balance > 0

\* Amounts far above every balance of the model.
LargeAmounts == {MaxBalance + 1, 1000 * MaxBalance, 1000000 * MaxBalance}

\* C12: a deposit of an amount >= 0 into an active account always succeeds,
\* without reading the clock and however large the amount, adds exactly the
\* amount to the balance and changes neither the active flag nor any other
\* account.
C12_DepositEffect ==
    [][ /\ LET c == last'
           IN  (c.op = "deposit" /\ accounts[c.self].active /\ c.amount >= 0) =>
                 /\ c.outcome = Returned
                 /\ c.now = NotRead
                 /\ accounts' = [accounts EXCEPT ![c.self] =
                                   [balance |-> accounts[c.self].balance + c.amount,
                                    active |-> TRUE]]
        /\ last = Idle =>
              \A i \in DOMAIN accounts, a \in LargeAmounts :
                  accounts[i].active =>
                      LET r == deposit(accounts, i, a)
                      IN  /\ r.outcome = Returned
                          /\ r.now = NotRead
                          /\ r.accounts = [accounts EXCEPT ![i].balance = @ + a] ]_vars

\* A positive deposit into an account that held money has succeeded beside
\* another account.
C12_Witness ==
    /\ last.op = "deposit"
    /\ last.outcome = Returned
    /\ last.amount > 0
    /\ accounts[last.self].balance > last.amount
    /\ Len(accounts) > 1

\* C13: a deposit or withdraw of a negative amount raises a ValidationError
\* and leaves the balance unchanged, whatever the account's balance and
\* active flag and whatever the clock.
C13_NegativeAmount ==
    [][ LET c == last'
        IN  (c.op \in {"deposit", "withdraw"} /\ c.amount < 0) =>
              /\ Failed(c)
              /\ Balances(accounts') = Balances(accounts) ]_vars

\* A deposit of a negative amount into an active account with money was
\* refused.
C13_Witness ==
    /\ last.op = "deposit"
    /\ last.amount < 0
    /\ Failed(last)
    /\ accounts[last.self].active
    /\ accounts[last.self].balance > 0

\* C14: a deposit, withdraw or deactivate that raises leaves balance and
\* active of the account (and of every account) as they were: every check
\* of an operation comes before its write.
C14_FailureLeavesState ==
    [][ LET c == last'
        IN  (c.op \in {"deposit", "withdraw", "deactivate"} /\ c.outcome # Returned) =>
              /\ Failed(c)
              /\ accounts' = accounts ]_vars

\* A withdraw that passed the amount and balance checks was refused by the
\* last check, the business window.
C14_Witness ==
    /\ last.op = "withdraw"
    /\ Failed(last)
    /\ last.now \in Clocks
    /\ last.amount \in 1..accounts[last.self].balance

\* What withdraw reports when its checks are made in the order active,
\* amount >= 0, amount <= balance, business window.
WithdrawInOrder(acct, c) ==
    IF ~acct.active THEN c.outcome.msg = "Account is deactivated" /\ c.now = NotRead
    ELSE IF c.amount < 0 THEN c.outcome.msg = "Amount must be positive" /\ c.now = NotRead
    ELSE IF c.amount > acct.balance
    THEN c.outcome.msg = "Insufficient balance" /\ c.now = NotRead
    ELSE /\ c.now \in Clocks
         /\ IF InBusinessWindow(c.now) THEN c.outcome = Returned
            ELSE c.outcome.msg \in {"Cannot perform operations outside business days",
                                    "Cannot perform operations outside business hours"}

\* C15: withdraw reports the first violated check in the order active,
\* amount >= 0, amount <= balance, business window, and reads the clock only
\* when the first three checks pass.
C15_WithdrawOrder ==
    [][ LET c == last'
        IN  c.op = "withdraw" =>
              /\ WithdrawInOrder(accounts[c.self], c)
              /\ c.outcome # Returned => Failed(c) ]_vars

\* A withdraw of a negative amount from an inactive account reported the
\* deactivation.
C15_Witness ==
    /\ last.op = "withdraw"
    /\ ~accounts[last.self].active
    /\ last.amount < 0
    /\ last.outcome = ValidationError("Account is deactivated")

\* A withdraw above the balance reported the balance and read no clock.
C15_WitnessInsufficient ==
    /\ last.op = "withdraw"
    /\ accounts[last.self].active
    /\ last.amount > accounts[last.self].balance
    /\ last.outcome = ValidationError("Insufficient balance")
    /\ last.now = NotRead

\* What transfer reports when its checks are made in the order source
\* active, destination a BankAccount, destination not the source,
\* destination active, amount >= 0, amount <= source balance.
TransferInOrder(accts, c) ==
    IF ~accts[c.self].active
    THEN c.outcome.msg = "Account is deactivated" /\ c.calls = <<>>
    ELSE IF ~IsBankAccount(c.other)
    THEN c.outcome.msg = "Destination must be a BankAccount instance" /\ c.calls = <<>>
    ELSE IF c.other.id = c.self
    THEN c.outcome.msg = "Cannot transfer to the same account" /\ c.calls = <<>>
    ELSE IF ~accts[c.other.id].active
    THEN c.outcome.msg = "Cannot transfer to a deactivated account" /\ c.calls = <<>>
    ELSE IF c.amount < 0
    THEN c.outcome.msg = "Amount must be positive" /\ c.calls = <<>>
    ELSE IF c.amount > accts[c.self].balance
    THEN c.outcome.msg = "Insufficient balance" /\ c.calls = <<>>
    ELSE c.calls # <<>> /\ c.now \in Clocks

\* C16: transfer reports the first violated check in the order source
\* active, destination a BankAccount, destination not the source,
\* destination active, amount >= 0, amount <= source balance; the clock is
\* read and withdraw called only when all six pass.
C16_TransferOrder ==
    [][ LET c == last'
        IN  c.op = "transfer" =>
              /\ TransferInOrder(accounts, c)
              /\ c.calls = <<>> => Failed(c) /\ c.now = NotRead ]_vars

\* A transfer of a negative amount to an inactive account reported the
\* inactive destination.
C16_Witness ==
    /\ last.op = "transfer"
    /\ last.amount < 0
    /\ IsBankAccount(last.other)
    /\ accounts[last.self].active
    /\ ~accounts[last.other.id].active
    /\ last.outcome = ValidationError("Cannot transfer to a deactivated account")

\* C17: a deposit of a negative amount into an inactive account reports
\* 'Account is deactivated', not 'Amount must be positive': the account is
\* checked before the amount.
C17_DepositOrder ==
    [][ LET c == last'
        IN  c.op = "deposit" =>
              /\ ~accounts[c.self].active =>
                    c.outcome = ValidationError("Account is deactivated")
              /\ (accounts[c.self].active /\ c.amount < 0) =>
                    c.outcome = ValidationError("Amount must be positive") ]_vars

\* A deposit of a negative amount into an inactive account reported the
\* deactivation.
C17_Witness ==
    /\ last.op = "deposit"
    /\ last.amount < 0
    /\ ~accounts[last.self].active
    /\ last.outcome = ValidationError("Account is deactivated")

\* C18: deposit(0) on an active account, and withdraw(0) on an active account
\* inside the business window, succeed and leave the heap as it was, so that
\* any number of them in a row leaves the balance unchanged.
C18_ZeroAmount ==
    [][ LET c == last'
        IN  /\ (c.op = "deposit" /\ c.amount = 0 /\ accounts[c.self].active) =>
                  c.outcome = Returned /\ accounts' = accounts
            /\ (c.op = "withdraw" /\ c.amount = 0 /\ accounts[c.self].active) =>
                  /\ c.now \in Clocks
                  /\ InBusinessWindow(c.now) => c.outcome = Returned /\ accounts' = accounts
        ]_vars

\* withdraw(0) has succeeded on an account whose balance is 0.
C18_Witness ==
    /\ last.op = "withdraw"
    /\ last.amount = 0
    /\ last.outcome = Returned
    /\ accounts[last.self] = [balance |-> 0, active |-> TRUE]

\* C19: on an active account with balance b, deposit(x) with x >= 0 followed
\* by withdraw(x) at a clock value inside the business window both succeed
\* and leave the balance at b.
C19_RoundTrip ==
    (/\ prev.self # 0
     /\ ~prev.fresh
     /\ last.op = "withdraw"
     /\ last.self = prev.self
     /\ last.amount = prev.amount)
    => /\ prev.outcome = Returned
       /\ last.now \in Clocks
       /\ InBusinessWindow(last.now) =>
            /\ last.outcome = Returned
            /\ accounts[last.self].balance = prev.before

\* deposit(x) then withdraw(x), x > 0, have brought a positive balance back.
C19_Witness ==
    /\ prev.self # 0
    /\ ~prev.fresh
    /\ prev.amount > 0
    /\ prev.before > 0
    /\ last.op = "withdraw"
    /\ last.self = prev.self
    /\ last.amount = prev.amount
    /\ last.outcome = Returned
    /\ accounts[last.self].balance = prev.before

\* The sum of the balances of the accounts the User tracks, account by
\* account of the heap: each balance times the number of times it is tracked.
RECURSIVE TrackedSum(_)
TrackedSum(n) ==
    IF n = 0 THEN 0
    ELSE TrackedSum(n - 1)
         + accounts[n].balance
           * Cardinality({i \in DOMAIN user.accounts : user.accounts[i].id = n})

\* C20: whenever it is called, after any add_account, deposit, withdraw and
\* transfer calls, total_balance() returns the sum of the current balances of
\* the tracked accounts, 0 when none is tracked, and changes no state.
C20_TotalBalance ==
    [][ LET c == last'
        IN  c.op = "total_balance" =>
              /\ c.outcome = Returned
              /\ c.value = <<TrackedSum(Len(accounts))>>
              /\ user.accounts = <<>> => c.value = <<0>>
              /\ user' = user
              /\ accounts' = accounts ]_vars

\* total_balance() has returned the sum of two different positive balances.
C20_Witness ==
    /\ last.op = "total_balance"
    /\ Len(user.accounts) = 2
    /\ user.accounts[1] # user.accounts[2]
    /\ accounts[user.accounts[1].id].balance > accounts[user.accounts[2].id].balance
    /\ accounts[user.accounts[2].id].balance > 0
    /\ last.value = <<accounts[user.accounts[1].id].balance
                        + accounts[user.accounts[2].id].balance>>

\* C21: add_account raises a ValidationError and leaves the tracked sequence
\* as it was when the argument is not a BankAccount; otherwise it returns and
\* the tracked sequence is the one before with that same account appended at
\* the end, every earlier entry staying at its place.
C21_AddAccount ==
    [][ LET c == last'
        IN  c.op = "add_account" =>
              IF IsBankAccount(c.other)
              THEN /\ c.outcome = Returned
                   /\ user'.accounts = Append(user.accounts, c.other)
                   /\ \A i \in DOMAIN user.accounts :
                          user'.accounts[i] = user.accounts[i]
              ELSE /\ c.outcome = ValidationError("Account must be a BankAccount instance")
                   /\ user'.accounts = user.accounts ]_vars

\* A second, different account has been added behind the first.
C21_Witness ==
    /\ last.op = "add_account"
    /\ last.outcome = Returned
    /\ Len(user.accounts) = 2
    /\ user.accounts[1] # user.accounts[2]
    /\ user.accounts[2] = last.other

\* C22: the tracked accounts of a User change only in add_account: no other
\* call, and no use of the list the accounts accessor returned, adds, removes
\* or reorders them.
C22_OnlyAddAccountMutates ==
    [][ LET c == last'
        IN  (user.exists /\ c.op \notin {"add_account", "User"})
                => user'.accounts = user.accounts ]_vars

\* The words that are blank: empty or made of whitespace only.
Blank(str) == \A i \in DOMAIN str : str[i] \in Whitespace

\* C23: User(name, email) and the name and email setters raise the blank
\* error of the field when given an empty or whitespace-only string; a
\* failing setter leaves name, email and accounts as they were; a non-blank
\* value is stored and the getter returns it as given, not stripped.
C23_BlankFields ==
    [][ LET c == last'
        IN  /\ c.op = "User" =>
                LET n == c.text[1]
                    e == c.text[2]
                IN  /\ Blank(n) =>
                          c.outcome = ValidationError("Name cannot be blank") /\ user' = user
                    /\ (~Blank(n) /\ Blank(e)) =>
                          c.outcome = ValidationError("Email cannot be blank") /\ user' = user
                    /\ (~Blank(n) /\ ~Blank(e)) =>
                          /\ c.outcome = Returned
                          /\ name_getter(user', accounts').value = <<n>>
                          /\ email_getter(user', accounts').value = <<e>>
            /\ c.op = "name.setter" =>
                IF Blank(c.text[1])
                THEN c.outcome = ValidationError("Name cannot be blank") /\ user' = user
                ELSE /\ c.outcome = Returned
                     /\ name_getter(user', accounts').value = <<c.text[1]>>
                     /\ user' = [user EXCEPT !.name = c.text[1]]
            /\ c.op = "email.setter" =>
                IF Blank(c.text[1])
                THEN c.outcome = ValidationError("Email cannot be blank") /\ user' = user
                ELSE /\ c.outcome = Returned
                     /\ email_getter(user', accounts').value = <<c.text[1]>>
                     /\ user' = [user EXCEPT !.email = c.text[1]]
            /\ c.op = "name" => c.value = <<user.name>> /\ user' = user
            /\ c.op = "email" => c.value = <<user.email>> /\ user' = user ]_vars

\* A name with whitespace around it has been set on a User that tracks an
\* account, and is stored as given.
C23_Witness ==
    /\ last.op = "name.setter"
    /\ last.outcome = Returned
    /\ last.text = <<<<" ", "B", "o", " ">>>>
    /\ user.name = <<" ", "B", "o", " ">>
    /\ user.accounts # <<>>

\* The calls on a User, and on the list its accounts accessor returns.
UserOps ==
    {"User", "name.setter", "email.setter", "name", "email", "accounts",
     "add_account", "total_balance",
     "accounts.append", "accounts.pop", "accounts.reverse"}

\* C24: no call on a User changes the balance or the active flag of any
\* account; the accounts change only in calls made on a BankAccount.
C24_UserLeavesAccounts ==
    [][ LET c == last'
        IN  /\ c.op \in UserOps => accounts' = accounts
            /\ accounts' # accounts =>
                  c.op \in {"__init__", "deposit", "withdraw", "transfer", "deactivate"} ]_vars

\* An account with money has been added to a User while another account is
\* inactive.
C24_Witness ==
    /\ last.op = "add_account"
    /\ last.outcome = Returned
    /\ accounts[last.other.id].balance > 0
    /\ \E i \in DOMAIN accounts : ~accounts[i].active

\* The number of times the account is tracked.
Occurrences(tracked, account) ==
    Cardinality({i \in DOMAIN tracked : tracked[i] = account})

C30_InactiveIsEmpty ==
    \A i \in DOMAIN accounts : ~accounts[i].active => accounts[i].balance = 0

\* A deposit into a deactivated account was refused while another account
\* holds money.
C30_Witness ==
    /\ last.op = "deposit"
    /\ last.amount > 0
    /\ Failed(last)
    /\ accounts[last.self] = [balance |-> 0, active |-> FALSE]
    /\ \E i \in DOMAIN accounts : accounts[i].balance > 0

\* The format of the design: four decimal octets, each 0..255, separated by
\* dots, read off the positions of the dots.
Cuts(text) == {0, Len(text) + 1} \cup {i \in DOMAIN text : text[i] = "."}

NthCut(text, n) ==
    CHOOSE c \in Cuts(text) : Cardinality({d \in Cuts(text) : d < c}) = n - 1

Field(text, n) == SubSeq(text, NthCut(text, n) + 1, NthCut(text, n + 1) - 1)

RECURSIVE Pow10(_)
Pow10(k) == IF k = 0 THEN 1 ELSE 10 * Pow10(k - 1)

DecimalValue(seg) ==
    sum([i \in DOMAIN seg |-> DigitValue(seg[i]) * Pow10(Len(seg) - i)])

DecimalOctet(seg) ==
    /\ seg # <<>>
    /\ \A i \in DOMAIN seg : IsDigit(seg[i])
    /\ DecimalValue(seg) <= MaxOctet

DottedQuad(text) ==
    /\ Cardinality(Cuts(text)) = 5
    /\ \A n \in 1..4 : DecimalOctet(Field(text, n))

OctetsOf(text) == [n \in 1..4 |-> DecimalValue(Field(text, n))]

\* C26: get_location raises a RepositoryError carrying the original message
\* both for a string that is not a dotted quad, without calling the
\* repository, and for every exception the repository raises.
C26_LookupErrors ==
    last.op = "get_location" =>
        /\ (last.ip.type = "str" /\ ~DottedQuad(last.ip.text)) =>
              /\ last.outcome = RepositoryError(from_string(last.ip.text).outcome.msg)
              /\ last.calls = <<>>
        /\ (last.calls # <<>> /\ last.repository.kind = "raises") =>
              last.outcome = RepositoryError(last.repository.error.msg)

\* C27: from_string returns the four octets of a string that is a dotted
\* quad, and raises a ValidationError for every other string.
C27_FromStringExact ==
    last.op = "from_string" =>
        IF DottedQuad(last.text)
        THEN last.outcome = Returned /\ last.value = <<IpAddress(OctetsOf(last.text))>>
        ELSE last.outcome.raised = "ValidationError"

\* C28: for a dotted-quad string or an IpAddress object get_location calls
\* the repository exactly once, with the object itself or with the parsed
\* string, and returns the Geolocation the repository returns.
C28_ValidLookup ==
    (/\ last.op = "get_location"
     /\ \/ IsIpAddress(last.ip)
        \/ last.ip.type = "str" /\ DottedQuad(last.ip.text)) =>
        /\ Len(last.calls) = 1
        /\ IsIpAddress(last.ip) => last.calls[1] = last.ip
        /\ last.ip.type = "str" => last.calls[1] = IpAddress(OctetsOf(last.ip.text))
        /\ last.repository.kind = "returns" =>
              last.outcome = Returned /\ last.value = <<last.repository.value>>

\* The location of "7.7.7.7" has been returned as the repository gave it.
C28_Witness ==
    /\ last.op = "get_location"
    /\ last.ip = Str(<<"7", ".", "7", ".", "7", ".", "7">>)
    /\ last.calls = <<IpAddress(<<7, 7, 7, 7>>)>>
    /\ last.outcome = Returned
    /\ last.value = <<[country |-> "US", city |-> "Mountain View",
                       latitude |-> 37, longitude |-> 0 - 122]>>

\* C29: for an IpAddress ip with four octets in 0..255,
\* from_string(str(ip)) returns an IpAddress equal to ip.
C29_StrRoundTrip ==
    (/\ last.op = "from_string(str(ip))"
     /\ Len(last.ip.octets) = 4
     /\ \A i \in 1..4 : last.ip.octets[i] \in 0..MaxOctet) =>
        last.outcome = Returned /\ last.value = <<last.ip>>

\* 0.10.100.255 has been rendered and parsed back.
C29_Witness ==
    /\ last.op = "from_string(str(ip))"
    /\ last.ip = IpAddress(<<0, 10, 100, MaxOctet>>)
    /\ last.text = <<"0", ".", "1", "0", ".", "1", "0", "0", ".", "2", "5", "5">>
    /\ last.value = <<last.ip>>

\* C31: in every step in which the balance of some account becomes smaller,
\* the call is a withdraw or a transfer that read a clock value inside the
\* business window; an account that becomes inactive in a step had balance 0
\* before it; and deactivate never reads the clock.
C31_DecreaseInsideWindow ==
    [][ LET c == last'
        IN  /\ (\E i \in DOMAIN accounts : accounts'[i].balance < accounts[i].balance)
                  => /\ c.op \in {"withdraw", "transfer"}
                     /\ c.now # NotRead
                     /\ InBusinessWindow(c.now)
            /\ \A i \in DOMAIN accounts :
                  (accounts[i].active /\ ~accounts'[i].active) => accounts[i].balance = 0
            /\ c.op = "deactivate" => c.now = NotRead ]_vars

\* A transfer made on Monday at 9 has taken money out of its source.
C31_Witness ==
    /\ last.op = "transfer"
    /\ last.outcome = Returned
    /\ last.amount > 0
    /\ last.now = [weekday |-> 0, hour |-> 9]

\* The sum of all balances.
Total(accts) == sum(Balances(accts))

\* C32: in every step the sum of all balances grows by the initial balance
\* of an account that is created, grows by the amount of a deposit that
\* succeeds, shrinks by the amount of a withdraw that succeeds, and stays as
\* it is in a transfer, a deactivate and every call that fails.
C32_Accounting ==
    [][ LET c == last'
            delta == Total(accounts') - Total(accounts)
        IN  /\ c.op \in {"__init__", "deposit"} =>
                  delta = (IF c.outcome = Returned THEN c.amount ELSE 0)
            /\ c.op = "withdraw" =>
                  delta = (IF c.outcome = Returned THEN 0 - c.amount ELSE 0)
            /\ c.op \in {"transfer", "deactivate", "none"} => delta = 0
            /\ Failed(c) => delta = 0 ]_vars

\* A transfer has succeeded between two accounts that both hold money after it.
C32_Witness ==
    /\ last.op = "transfer"
    /\ last.outcome = Returned
    /\ last.amount > 0
    /\ accounts[last.self].balance > 0
    /\ accounts[last.other.id].balance > last.amount

\* C33: for a User that tracks the source and the destination of a transfer
\* once each, total_balance() returns the same value before and after the
\* transfer, whether it succeeds or fails.
C33_TransferKeepsTotal ==
    [][ LET c == last'
        IN  (/\ c.op = "transfer"
             /\ user.exists
             /\ DistinctAccount(c.self, c.other)
             /\ Occurrences(user.accounts, Ref(c.self)) = 1
             /\ Occurrences(user.accounts, c.other) = 1)
                => total_balance(user', accounts').value
                      = total_balance(user, accounts).value ]_vars

\* Money has moved from the first to the second account a User tracks.
C33_Witness ==
    /\ last.op = "transfer"
    /\ last.outcome = Returned
    /\ last.amount > 0
    /\ user.accounts = <<Ref(last.self), last.other>>

\* C34: when the same deposit, withdraw and transfer calls are made on both
\* classes, on accounts created with balances >= 0, without deactivate and
\* inside the business window, every call succeeds in one class exactly when
\* it succeeds in the other, and the balances are the same after every call.
C34_VariantsAgree ==
    /\ Balances(simple) = Balances(accounts)
    /\ last # Idle => (last.outcome = Returned <=> last.simple = Returned)

\* A transfer of more than the source holds has failed in both classes.
C34_Witness ==
    /\ last.op = "transfer"
    /\ DistinctAccount(last.self, last.other)
    /\ last.amount > accounts[last.self].balance
    /\ last.outcome = ValidationError("Insufficient balance")
    /\ last.simple = ValueError("Insufficient balance")
    /\ simple[last.self].balance > 0

\* C36: after deactivate() has returned on an object of the simpler class,
\* the object is inactive.
C36_SimpleDeactivate ==
    (last.op = "deactivate" /\ last.outcome = Returned) => ~simple[last.self].active

\* What the call of caller t has added to the balance of account i, as the
\* caller was told: a call that returned took its amount from its account
\* and, for a transfer, put it into the destination.
Net(t, i) ==
    LET th == threads.run[t]
    IN  IF th.pc # "done" \/ th.outcome # Returned THEN 0
        ELSE (IF th.self = i THEN 0 - th.amount ELSE 0)
             + (IF th.op = "transfer" /\ th.other = i THEN th.amount ELSE 0)

RECURSIVE NetOf(_, _)
NetOf(callers, i) ==
    IF callers = {} THEN 0
    ELSE LET t == CHOOSE u \in callers : TRUE
         IN  Net(t, i) + NetOf(callers \ {t}, i)

\* Every caller is outside every call.
Quiet == \A t \in Callers : threads.run[t].pc \in {"idle", "done"}

\* The balances say what the calls that returned have moved.
Accounted ==
    \A i \in DOMAIN accounts :
        accounts[i].balance = threads.start[i].balance + NetOf(Callers, i)

\* C35: when every withdraw and transfer runs to its end before the next one
\* starts, no balance is ever negative and, between calls, the balances are
\* the initial ones changed by exactly the amounts of the calls that
\* returned; when the calls of two callers interleave this is lost.
C35_AtomicCallsAreSafe ==
    threads.mode = "atomic" =>
        /\ \A i \in DOMAIN accounts : accounts[i].balance >= 0
        /\ Quiet => Accounted

\* Two interleaved withdraws from one account have both returned and left
\* its balance negative.
C35_Witness ==
    /\ threads.mode = "interleaved"
    /\ \A t \in Callers :
          /\ threads.run[t].op = "withdraw"
          /\ threads.run[t].pc = "done"
          /\ threads.run[t].outcome = Returned
    /\ \E i \in DOMAIN accounts : accounts[i].balance < 0

\* Two interleaved transfers out of one account have both returned and the
\* sum of the balances is larger than before: one update was lost.
C35_WitnessLostUpdate ==
    /\ threads.mode = "interleaved"
    /\ \A t \in Callers :
          /\ threads.run[t].op = "transfer"
          /\ threads.run[t].pc = "done"
          /\ threads.run[t].outcome = Returned
    /\ \A i \in DOMAIN accounts : accounts[i].balance >= 0
    /\ Total(accounts) > Total(threads.start)

====
